---- MODULE Spec2Model ----
(***************************************************************************)
(* Model of prob-alpha: Shape.py (canonical unlabeled rooted trees),       *)
(* PhyloTree.py (leaf-labelled trees) and Probs.py (Ford's alpha model).   *)
(*                                                                         *)
(* Values                                                                  *)
(*   newick Node : [name |-> 0..NumLabels, descendants |-> Seq(Node)]      *)
(*                 (name 0 stands for None)                                *)
(*   Shape       : [is_leaf |-> BOOLEAN, children |-> Seq(Shape)]          *)
(*   PhyloTree   : [is_leaf, children, leaf |-> 0..NumLabels] (0 = None)   *)
(*   children = None is held as <<>> together with is_leaf = TRUE          *)
(*   symbolic expression in a : [num |-> poly, den |-> poly], a polynomial *)
(*                 being the sequence of its integer coefficients, lowest  *)
(*                 degree first, without trailing zeros (0 is <<>>)        *)
(***************************************************************************)
EXTENDS Integers, Sequences, FiniteSets

VARIABLES input, shapes, trees, op, ret

vars == <<input, shapes, trees, op, ret>>

\* Bounds of the model.
MaxNodes == 8
MaxTreeNodes == 5
NumLabels == 2
MaxDeepNodes == 8

Labels == 1..NumLabels

DeepLabels == {1, 2}

None == 0

-----------------------------------------------------------------------------
(* Generic parsed input: what newick.loads hands to the adapters.          *)

RECURSIVE NodesOfSize(_, _), ForestsOfSize(_, _)
\* All generic nodes with exactly n nodes in their subtree, leaves named in L.
NodesOfSize(n, L) ==
    IF n = 1 THEN {[name |-> l, descendants |-> << >>] : l \in L}
    ELSE {[name |-> None, descendants |-> f] : f \in ForestsOfSize(n - 1, L)}

\* All ordered lists of generic nodes with m nodes in total.
ForestsOfSize(m, L) ==
    IF m = 0 THEN {<< >>}
    ELSE UNION {{<<t>> \o f : t \in NodesOfSize(k, L), f \in ForestsOfSize(m - k, L)} :
                k \in 1..m}

-----------------------------------------------------------------------------
(* Shape.py / PhyloTree.py                                                 *)

\* Dynamic dispatch: a PhyloTree instance is the one carrying a leaf field.
IsPhyloTree(T) == "leaf" \in DOMAIN T

\* Shape.__init__: the fields it sets, and the assertion it ends with.
ShapeFields(is_none, children) ==
    [is_leaf |-> is_none, children |-> children]

ShapeAssert(is_none, children) == is_none \/ Len(children) > 0

\* PhyloTree.__init__: Shape.__init__, then self.leaf and its own assertion.
PhyloTreeFields(leaf, is_none, children) ==
    [is_leaf |-> is_none, children |-> children, leaf |-> leaf]

PhyloTreeAssert(leaf, is_none, children) ==
    /\ ShapeAssert(is_none, children)
    /\ (~is_none) \/ (leaf # None)

RECURSIVE ShapeCompareLeafLast(_, _)
\* Shape.compare with the leaf put after the internal node in one branch.
ShapeCompareLeafLast(T, T2) ==
    IF T.is_leaf /\ T2.is_leaf THEN 0
    ELSE IF T.is_leaf THEN 1
    ELSE IF T2.is_leaf THEN 1
    ELSE LET c == Len(T.children) - Len(T2.children)
             diff == {i \in 1..Len(T.children) :
                        ShapeCompareLeafLast(T.children[i], T2.children[i]) # 0}
         IN IF c # 0 THEN c
            ELSE IF diff = {} THEN 0
            ELSE LET i == CHOOSE k \in diff : \A j \in diff : k <= j
                 IN ShapeCompareLeafLast(T.children[i], T2.children[i])

RECURSIVE ShapeCompareSign(_, _)
\* Shape.compare returning the sign of the difference of the child counts.
ShapeCompareSign(T, T2) ==
    IF T.is_leaf /\ T2.is_leaf THEN 0
    ELSE IF T.is_leaf THEN -1
    ELSE IF T2.is_leaf THEN 1
    ELSE LET c == Len(T.children) - Len(T2.children)
             diff == {i \in 1..Len(T.children) :
                        ShapeCompareSign(T.children[i], T2.children[i]) # 0}
         IN IF c < 0 THEN -1
            ELSE IF c > 0 THEN 1
            ELSE IF diff = {} THEN 0
            ELSE LET i == CHOOSE k \in diff : \A j \in diff : k <= j
                 IN ShapeCompareSign(T.children[i], T2.children[i])

RECURSIVE ShapeCompare(_, _)
\* Shape.compare
ShapeCompare(T, T2) ==
    IF T.is_leaf /\ T2.is_leaf THEN 0
    ELSE IF T.is_leaf THEN -1
    ELSE IF T2.is_leaf THEN 1
    ELSE LET c == Len(T.children) - Len(T2.children)
             diff == {i \in 1..Len(T.children) :
                        ShapeCompare(T.children[i], T2.children[i]) # 0}
         IN IF c # 0 THEN c
            ELSE IF diff = {} THEN 0
            ELSE LET i == CHOOSE k \in diff : \A j \in diff : k <= j
                 IN ShapeCompare(T.children[i], T2.children[i])

RECURSIVE PhyloTreeCompare(_, _)
\* PhyloTree.compare
PhyloTreeCompare(T, T2) ==
    IF T.is_leaf /\ T2.is_leaf
    THEN IF T.leaf > T2.leaf THEN 1
         ELSE IF T.leaf < T2.leaf THEN -1
         ELSE 0
    ELSE IF T.is_leaf THEN -1
    ELSE IF T2.is_leaf THEN 1
    ELSE LET c == Len(T.children) - Len(T2.children)
             diff == {i \in 1..Len(T.children) :
                        PhyloTreeCompare(T.children[i], T2.children[i]) # 0}
         IN IF c # 0 THEN c
            ELSE IF diff = {} THEN 0
            ELSE LET i == CHOOSE k \in diff : \A j \in diff : k <= j
                 IN PhyloTreeCompare(T.children[i], T2.children[i])

\* self.compare(T2), resolved on the class of self.
compare(T, T2) ==
    IF IsPhyloTree(T) THEN PhyloTreeCompare(T, T2) ELSE ShapeCompare(T, T2)

\* Shape.__lt__ and Shape.__eq__
lt(T, T2) == compare(T, T2) < 0

eq(T, T2) == compare(T, T2) = 0

\* Shape.iso
iso(T, T2) == eq(T, T2)

RECURSIVE InsertSorted(_, _)
\* One step of the stable sort: x goes before the first element it is less than.
InsertSorted(x, s) ==
    IF s = << >> THEN <<x>>
    ELSE IF lt(x, Head(s)) THEN <<x>> \o s
    ELSE <<Head(s)>> \o InsertSorted(x, Tail(s))

RECURSIVE sorted(_)
\* Python's sorted(list): a stable sort driven by __lt__ alone.
sorted(s) ==
    IF s = << >> THEN << >>
    ELSE LET n == Len(s)
         IN InsertSorted(s[n], sorted(SubSeq(s, 1, n - 1)))

RECURSIVE newick_node_to_shape_unsorted(_)
\* newick_node_to_shape without the call of sorted.
newick_node_to_shape_unsorted(N) ==
    IF N.descendants = << >> THEN ShapeFields(TRUE, << >>)
    ELSE ShapeFields(FALSE,
            [i \in 1..Len(N.descendants) |->
               newick_node_to_shape_unsorted(N.descendants[i])])

RECURSIVE newick_node_to_shape(_)
\* Shape.newick_node_to_shape
newick_node_to_shape(N) ==
    IF N.descendants = << >> THEN ShapeFields(TRUE, << >>)
    ELSE ShapeFields(FALSE,
            sorted([i \in 1..Len(N.descendants) |->
                      newick_node_to_shape(N.descendants[i])]))

RECURSIVE newick_node_to_tree(_)
\* PhyloTree.newick_node_to_tree
newick_node_to_tree(N) ==
    IF N.descendants = << >> THEN PhyloTreeFields(N.name, TRUE, << >>)
    ELSE PhyloTreeFields(None, FALSE,
            sorted([i \in 1..Len(N.descendants) |->
                      newick_node_to_tree(N.descendants[i])]))

RECURSIVE SumSeq(_)
\* Python's sum over a list of integers.
SumSeq(s) == IF s = << >> THEN 0 ELSE Head(s) + SumSeq(Tail(s))

RECURSIVE count_leaves(_)
\* Shape.count_leaves
count_leaves(T) ==
    IF T.is_leaf THEN 1
    ELSE SumSeq([i \in 1..Len(T.children) |-> count_leaves(T.children[i])])

\* The test of Shape.is_symmetric and Shape.count_symmetries on an internal node.
all_iso_first(T) ==
    \A i \in 1..Len(T.children) : iso(T.children[1], T.children[i])

RECURSIVE count_symmetries_no_descent(_)
\* count_symmetries stopping at the first symmetric node of a branch.
count_symmetries_no_descent(T) ==
    IF T.is_leaf THEN 0
    ELSE IF all_iso_first(T) THEN 1
    ELSE SumSeq([i \in 1..Len(T.children) |->
                   count_symmetries_no_descent(T.children[i])])

RECURSIVE count_symmetries(_)
\* Shape.count_symmetries (inherited unchanged by PhyloTree)
count_symmetries(T) ==
    IF T.is_leaf THEN 0
    ELSE LET below == SumSeq([i \in 1..Len(T.children) |->
                                count_symmetries(T.children[i])])
         IN IF all_iso_first(T) THEN 1 + below ELSE below

RECURSIVE PhyloTreeShape(_)
\* PhyloTree.shape
PhyloTreeShape(T) ==
    IF T.is_leaf THEN ShapeFields(TRUE, << >>)
    ELSE ShapeFields(FALSE,
            [i \in 1..Len(T.children) |-> PhyloTreeShape(T.children[i])])

\* T.shape(): Shape.shape returns self, PhyloTree.shape projects.
shape(T) == IF IsPhyloTree(T) THEN PhyloTreeShape(T) ELSE T

RECURSIVE leaves(_)
\* PhyloTree.leaves, as the list the generator yields.
leaves(T) ==
    IF T.is_leaf THEN <<T.leaf>>
    ELSE LET RECURSIVE cat(_)
             cat(k) == IF k = 0 THEN << >>
                       ELSE cat(k - 1) \o leaves(T.children[k])
         IN cat(Len(T.children))

RECURSIVE InsertInt(_, _)
InsertInt(x, s) ==
    IF s = << >> THEN <<x>>
    ELSE IF x < Head(s) THEN <<x>> \o s
    ELSE <<Head(s)>> \o InsertInt(x, Tail(s))

RECURSIVE SortInts(_)
\* sorted(list) on labels.
SortInts(s) ==
    IF s = << >> THEN << >>
    ELSE InsertInt(s[Len(s)], SortInts(SubSeq(s, 1, Len(s) - 1)))

\* T.labels(): Shape.labels is the constant [1], PhyloTree.labels the sorted leaves.
labels(T) == IF IsPhyloTree(T) THEN SortInts(leaves(T)) ELSE <<1>>

\* PhyloTree.is_phylo
is_phylo(T) ==
    LET L == labels(T)
    IN \A i \in 2..Len(L) : L[i] # L[i - 1]

-----------------------------------------------------------------------------
(* Symbolic expressions in a (Probs.py line 11): exact rational functions. *)

RECURSIVE Trim(_)
Trim(p) ==
    IF p = << >> THEN << >>
    ELSE IF p[Len(p)] = 0 THEN Trim(SubSeq(p, 1, Len(p) - 1))
    ELSE p

Coef(p, i) == IF i \in 1..Len(p) THEN p[i] ELSE 0

PolyMul(p, q) ==
    IF p = << >> \/ q = << >> THEN << >>
    ELSE Trim([k \in 1..(Len(p) + Len(q) - 1) |->
                SumSeq([i \in 1..Len(p) |-> p[i] * Coef(q, k - i + 1)])])

PolyInt(c) == Trim(<<c>>)

Frac(n, d) == [num |-> n, den |-> d]

FracInt(c) == Frac(PolyInt(c), PolyInt(1))

FracMul(x, y) == Frac(PolyMul(x.num, y.num), PolyMul(x.den, y.den))

FracDiv(x, y) == Frac(PolyMul(x.num, y.den), PolyMul(x.den, y.num))

\* Equality of two expressions as rational functions of a.
FracEq(x, y) == PolyMul(x.num, y.den) = PolyMul(y.num, x.den)

\* expr == 0 as Python's truth value of it.
IsZero(x) == x.num = << >>

RECURSIVE factorial(_)
factorial(n) == IF n <= 1 THEN 1 ELSE n * factorial(n - 1)

RECURSIVE binomial(_, _)
binomial(n, k) ==
    IF k < 0 \/ k > n THEN 0
    ELSE IF k = 0 \/ k = n THEN 1
    ELSE binomial(n - 1, k - 1) + binomial(n - 1, k)

RECURSIVE IntPow2(_)
IntPow2(e) == IF e = 0 THEN 1 ELSE 2 * IntPow2(e - 1)

\* 2 ** e, e any integer.
Pow2(e) ==
    IF e >= 0 THEN Frac(PolyInt(IntPow2(e)), PolyInt(1))
    ELSE Frac(PolyInt(1), PolyInt(IntPow2(-e)))

-----------------------------------------------------------------------------
(* Probs.py                                                                *)

\* phi(n, m) = a/2 * C(n+m, n) + (1 - 2a) * C(n+m-2, n-1)
phi(n, m) ==
    Frac(Trim(<<2 * binomial(n + m - 2, n - 1),
                binomial(n + m, n) - 4 * binomial(n + m - 2, n - 1)>>),
         PolyInt(2))

RECURSIVE ProdSeq(_)
\* prod over a list of expressions.
ProdSeq(s) == IF s = << >> THEN FracInt(1) ELSE FracMul(Head(s), ProdSeq(Tail(s)))

RECURSIVE PiNoSplit(_)
\* Pi without the weight phi(b, c) of the split.
PiNoSplit(T) ==
    IF T.is_leaf \/ T.children = << >> THEN FracInt(1)
    ELSE IF Len(T.children) > 1
    THEN ProdSeq([i \in 1..Len(T.children) |-> PiNoSplit(T.children[i])])
    ELSE FracInt(1)

RECURSIVE Pi(_)
\* Pi
Pi(T) ==
    IF T.is_leaf \/ T.children = << >> THEN FracInt(1)
    ELSE IF Len(T.children) > 1
    THEN LET b == count_leaves(T.children[1])
             c == count_leaves(T.children[2])
         IN IF b * c # 0
            THEN FracMul(phi(b, c),
                         ProdSeq([i \in 1..Len(T.children) |-> Pi(T.children[i])]))
            ELSE FracInt(1)
    ELSE FracInt(1)

RECURSIVE Gamma_alpha_from_one(_)
\* Gamma_alpha with 1, not 0, below 2.
Gamma_alpha_from_one(n) ==
    IF n = 2 THEN Frac(<<1, -1>>, PolyInt(1))
    ELSE IF n > 2
    THEN FracMul(Frac(<<n - 1, -1>>, PolyInt(1)), Gamma_alpha_from_one(n - 1))
    ELSE FracInt(1)

RECURSIVE Gamma_alpha(_)
\* Gamma_alpha
Gamma_alpha(n) ==
    IF n = 2 THEN Frac(<<1, -1>>, PolyInt(1))
    ELSE IF n > 2 THEN FracMul(Frac(<<n - 1, -1>>, PolyInt(1)), Gamma_alpha(n - 1))
    ELSE FracInt(0)

\* What a prob* function hands back: the string "ERROR: division by zero"
\* (signal), or an expression (value).
Signal == [signal |-> TRUE]

Value(v) == [signal |-> FALSE, value |-> v]

\* not bool(T.children): children is None or an empty list.
NoChildren(T) == T.children = << >>

\* prob_shape
prob_shape(T) ==
    IF NoChildren(T) THEN Value(FracInt(1))
    ELSE LET T1 == shape(T)
             n == count_leaves(T1)
             Gamma == Gamma_alpha(n)
         IN IF IsZero(Gamma) THEN Signal
            ELSE LET k == count_symmetries(T1)
                 IN Value(FracMul(FracDiv(Pow2(n - k - 1), Gamma), Pi(T)))

\* prob_tree
prob_tree(T) ==
    IF NoChildren(T) THEN Value(FracInt(1))
    ELSE LET n == count_leaves(T)
             Gamma == Gamma_alpha(n)
         IN IF IsZero(Gamma) THEN Signal
            ELSE Value(FracMul(FracDiv(Pow2(n - 1),
                                       FracMul(FracInt(factorial(n)), Gamma)),
                               Pi(T)))

\* nlabels as the number of distinct labels.
nlabels_distinct(T) == Cardinality({labels(T)[i] : i \in 1..Len(labels(T))})

\* nlabels = len(T.labels()) in prob
nlabels_of(T) == Len(labels(T))

\* The expression prob builds once Gamma is known not to be 0.
prob_eq(T, n, k, nlabels) ==
    FracMul(FracDiv(Pow2(n - k - 1),
                    FracMul(FracInt(factorial(nlabels)), Gamma_alpha(n))),
            Pi(T))

\* prob
prob(T) ==
    IF NoChildren(T) THEN Value(FracInt(1))
    ELSE LET n == count_leaves(T)
             Gamma == Gamma_alpha(n)
         IN IF IsZero(Gamma) THEN Signal
            ELSE Value(prob_eq(T, n, count_symmetries(T), nlabels_of(T)))

\* Shape.sort: the name children is bound nowhere, so the call on an internal
\* node raises NameError before anything is sorted; on a leaf it does nothing.
ShapeSort(T) == [raised |-> ~T.is_leaf, children |-> T.children]

-----------------------------------------------------------------------------
(* The state machine: a list of parsed nodes is ingested as Shapes or as   *)
(* PhyloTrees, and one operation is applied to every object of the list.   *)

\* The objects at hand: the Shapes or the PhyloTrees built from input.
objs == IF trees = << >> THEN shapes ELSE trees

Ingested == op \in {"shapes", "trees"}

N == Len(objs)

InitVars ==
    /\ shapes = << >>
    /\ trees = << >>
    /\ op = "init"
    /\ ret = << >>

\* newick.loads has parsed a list of trees whose leaves all carry the same
\* name: the inputs of the topology operations, which never read a name.
Init ==
    /\ input \in UNION {ForestsOfSize(m, {1}) : m \in 1..MaxNodes}
    /\ InitVars

\* newick.loads has parsed a list of labelled trees.
InitTree ==
    /\ input \in UNION {ForestsOfSize(m, Labels) : m \in 1..MaxTreeNodes}
    /\ InitVars

\* newick.loads has parsed one labelled tree, deeper.
InitDeep ==
    /\ input \in {<<t>> : t \in UNION {NodesOfSize(n, DeepLabels) :
                                          n \in 1..MaxDeepNodes}}
    /\ InitVars

\* Shape.from_newick_list
ShapeFromNewickList ==
    /\ op = "init"
    /\ shapes' = [i \in 1..Len(input) |-> newick_node_to_shape(input[i])]
    /\ op' = "shapes"
    /\ UNCHANGED <<input, trees, ret>>

\* PhyloTree.from_newick_list
TreeFromNewickList ==
    /\ op = "init"
    /\ trees' = [i \in 1..Len(input) |-> newick_node_to_tree(input[i])]
    /\ op' = "trees"
    /\ UNCHANGED <<input, shapes, ret>>

\* T.compare(T2) for every pair of objects of the list.
Compare ==
    /\ Ingested
    /\ ret' = [i \in 1..N |-> [j \in 1..N |-> compare(objs[i], objs[j])]]
    /\ op' = "compare"
    /\ UNCHANGED <<input, shapes, trees>>

\* T.iso(T2) for every pair of objects of the list.
Iso ==
    /\ Ingested
    /\ ret' = [i \in 1..N |-> [j \in 1..N |-> iso(objs[i], objs[j])]]
    /\ op' = "iso"
    /\ UNCHANGED <<input, shapes, trees>>

\* T.sort() on every object of the list.
Sort ==
    /\ Ingested
    /\ ret' = [i \in 1..N |-> ShapeSort(objs[i])]
    /\ op' = "sort"
    /\ UNCHANGED <<input, shapes, trees>>

\* T.count_symmetries() on every object of the list.
CountSymmetries ==
    /\ Ingested
    /\ ret' = [i \in 1..N |-> count_symmetries(objs[i])]
    /\ op' = "count_symmetries"
    /\ UNCHANGED <<input, shapes, trees>>

\* T.shape() on every object of the list.
ShapeOf ==
    /\ Ingested
    /\ ret' = [i \in 1..N |-> shape(objs[i])]
    /\ op' = "shape"
    /\ UNCHANGED <<input, shapes, trees>>

\* [prob_shape(t) for t in l]
ProbShape ==
    /\ Ingested
    /\ ret' = [i \in 1..N |-> prob_shape(objs[i])]
    /\ op' = "prob_shape"
    /\ UNCHANGED <<input, shapes, trees>>

\* [prob_tree(t) for t in l]
ProbTree ==
    /\ Ingested
    /\ ret' = [i \in 1..N |-> prob_tree(objs[i])]
    /\ op' = "prob_tree"
    /\ UNCHANGED <<input, shapes, trees>>

\* prob, with the nlabels it computed (0 where it returned before line 105).
ProbLocals(T) ==
    [result |-> prob(T),
     nlabels |-> IF prob(T).signal \/ NoChildren(T) THEN 0 ELSE nlabels_of(T)]

\* [prob(t) for t in l]
Prob ==
    /\ Ingested
    /\ ret' = [i \in 1..N |-> ProbLocals(objs[i])]
    /\ op' = "prob"
    /\ UNCHANGED <<input, shapes, trees>>

\* Shape(children), children being None, [] or the list of Shapes at hand.
ConstructShape ==
    /\ op = "shapes"
    /\ \E is_none \in BOOLEAN, children \in {<< >>, shapes} :
         /\ is_none => children = << >>
         /\ ret' = IF ShapeAssert(is_none, children)
                   THEN [raised |-> FALSE, is_none |-> is_none, leaf |-> None,
                         given |-> children,
                         node |-> ShapeFields(is_none, children)]
                   ELSE [raised |-> TRUE, is_none |-> is_none, leaf |-> None,
                         given |-> children]
    /\ op' = "construct"
    /\ UNCHANGED <<input, shapes, trees>>

\* PhyloTree(leaf, children), leaf being None or a label, children being None,
\* [] or the list of PhyloTrees at hand.
ConstructTree ==
    /\ op = "trees"
    /\ \E leaf \in {None} \cup Labels, is_none \in BOOLEAN,
          children \in {<< >>, trees} :
         /\ is_none => children = << >>
         /\ ret' = IF PhyloTreeAssert(leaf, is_none, children)
                   THEN [raised |-> FALSE, is_none |-> is_none, leaf |-> leaf,
                         given |-> children,
                         node |-> PhyloTreeFields(leaf, is_none, children)]
                   ELSE [raised |-> TRUE, is_none |-> is_none, leaf |-> leaf,
                         given |-> children]
    /\ op' = "construct"
    /\ UNCHANGED <<input, shapes, trees>>

Next ==
    \/ ShapeFromNewickList
    \/ TreeFromNewickList
    \/ Compare
    \/ Iso
    \/ Sort
    \/ CountSymmetries
    \/ ShapeOf
    \/ ProbShape
    \/ ProbTree
    \/ Prob
    \/ ConstructShape
    \/ ConstructTree

Spec == Init /\ [][Next]_vars

SpecTree == InitTree /\ [][Next]_vars

SpecDeep == InitDeep /\ [][Next]_vars

-----------------------------------------------------------------------------
(* Reference notions the claims are stated with.                           *)

RECURSIVE NodeIso(_, _)
\* Two parsed nodes are isomorphic as unordered rooted trees, names ignored:
\* they have as many children, and every class of mutually isomorphic children
\* has as many members under the one as under the other (which is what the
\* existence of a matching of the children amounts to).
NodeIso(A, B) ==
    LET n == Len(A.descendants)
        a == A.descendants
        b == B.descendants
    IN /\ n = Len(b)
       /\ \A i \in 1..n :
            Cardinality({j \in 1..n : NodeIso(a[i], a[j])})
              = Cardinality({j \in 1..n : NodeIso(a[i], b[j])})

RECURSIVE NodeLabelIso(_, _)
\* Two parsed nodes are isomorphic as unordered rooted trees with named leaves.
NodeLabelIso(A, B) ==
    LET n == Len(A.descendants)
        a == A.descendants
        b == B.descendants
    IN /\ n = Len(b)
       /\ n = 0 => A.name = B.name
       /\ \A i \in 1..n :
            Cardinality({j \in 1..n : NodeLabelIso(a[i], a[j])})
              = Cardinality({j \in 1..n : NodeLabelIso(a[i], b[j])})

RECURSIVE TopoSymmetricNodes(_)
\* The number of internal nodes of a parsed node whose children are pairwise
\* isomorphic as topologies.
TopoSymmetricNodes(A) ==
    LET n == Len(A.descendants)
        below == SumSeq([i \in 1..n |-> TopoSymmetricNodes(A.descendants[i])])
    IN IF n = 0 THEN 0
       ELSE IF \A i, j \in 1..n : NodeIso(A.descendants[i], A.descendants[j])
            THEN 1 + below
            ELSE below

RECURSIVE LabelSymmetricNodes(_)
\* The number of internal nodes of a parsed node whose children are pairwise
\* isomorphic as trees with named leaves.
LabelSymmetricNodes(A) ==
    LET n == Len(A.descendants)
        below == SumSeq([i \in 1..n |-> LabelSymmetricNodes(A.descendants[i])])
    IN IF n = 0 THEN 0
       ELSE IF \A i, j \in 1..n : NodeLabelIso(A.descendants[i], A.descendants[j])
            THEN 1 + below
            ELSE below

RECURSIVE InternalNodes(_)
InternalNodes(A) ==
    LET n == Len(A.descendants)
    IN IF n = 0 THEN 0
       ELSE 1 + SumSeq([i \in 1..n |-> InternalNodes(A.descendants[i])])

RECURSIVE MaxArity(_)
\* The largest number of children of a node of an object.
MaxArity(T) ==
    LET n == Len(T.children)
        below == {MaxArity(T.children[i]) : i \in 1..n} \cup {n}
    IN CHOOSE m \in below : \A k \in below : k <= m

RECURSIVE IsCanonical(_)
\* Sorted canonical form: at every internal node the children ascend in the
\* Shape order.
IsCanonical(S) ==
    /\ \A i \in 1..(Len(S.children) - 1) :
         ShapeCompare(S.children[i], S.children[i + 1]) <= 0
    /\ \A i \in 1..Len(S.children) : IsCanonical(S.children[i])

OnShapes == trees = << >> /\ shapes # << >>

OnTrees == trees # << >>

Abs(c) == IF c < 0 THEN -c ELSE c

-----------------------------------------------------------------------------
(* C1 *)

\* C1: two parsed inputs that are isomorphic as unordered rooted trees are
\* ingested by newick_node_to_shape as Shapes with identical child structure,
\* compare gives 0 and iso is true on them; on two non-isomorphic inputs iso is
\* false.
C1_IsoInputsGiveEqualShapes ==
    /\ op = "shapes" =>
         \A i, j \in 1..Len(input) :
            NodeIso(input[i], input[j]) => shapes[i] = shapes[j]
    /\ (op = "compare" /\ OnShapes) =>
         \A i, j \in 1..Len(input) :
            NodeIso(input[i], input[j]) => ret[i][j] = 0
    /\ (op = "iso" /\ OnShapes) =>
         \A i, j \in 1..Len(input) :
            ret[i][j] = NodeIso(input[i], input[j])

\* Two isomorphic inputs written with their children in different orders,
\* after iso has answered.
C1_Witness ==
    /\ op = "iso" /\ OnShapes
    /\ \E i, j \in 1..Len(input) :
         /\ input[i] # input[j]
         /\ NodeIso(input[i], input[j])
         /\ ret[i][j]

-----------------------------------------------------------------------------
(* C2 *)

\* C2: on canonical Shapes compare is a total order: exactly one of A<B, A==B,
\* B<A holds, A<B and B<C give A<C, and iso(A, B) is true exactly when
\* compare(A, B) is 0.
C2_TotalOrder ==
    /\ (op = "compare" /\ OnShapes) =>
         \A i, j, k \in 1..N :
            /\ \/ (ret[i][j] < 0 /\ ret[i][j] # 0 /\ ~(ret[j][i] < 0))
               \/ (~(ret[i][j] < 0) /\ ret[i][j] = 0 /\ ~(ret[j][i] < 0))
               \/ (~(ret[i][j] < 0) /\ ret[i][j] # 0 /\ ret[j][i] < 0)
            /\ (ret[i][j] < 0 /\ ret[j][k] < 0) => ret[i][k] < 0
            /\ (ret[i][j] = 0 /\ ret[j][k] = 0) => ret[i][k] = 0
    /\ (op = "iso" /\ OnShapes) =>
         \A i, j \in 1..N :
            ret[i][j] = (ShapeCompare(shapes[i], shapes[j]) = 0)

\* Three Shapes in strictly ascending order, two of them internal.
C2_Witness ==
    /\ op = "compare" /\ OnShapes
    /\ \E i, j, k \in 1..N :
         /\ ret[i][j] < 0 /\ ret[j][k] < 0 /\ ret[i][k] < 0
         /\ ~shapes[i].is_leaf

-----------------------------------------------------------------------------
(* C3 *)

\* C3: every Shape an operation produces is in sorted canonical form: the
\* Shapes the adapter builds, and the Shape T.shape() returns for every
\* PhyloTree the adapter builds.
C3_ShapesAreCanonical ==
    /\ op = "shapes" => \A i \in 1..Len(shapes) : IsCanonical(shapes[i])
    /\ (op = "shape" /\ OnTrees) => \A i \in 1..N : IsCanonical(ret[i])

-----------------------------------------------------------------------------
(* C4 *)

HasRepeatedLabel(T) == ~is_phylo(T)

\* C4 as stated: in prob(T) nlabels is the number of distinct leaf labels, so
\* it is strictly below the leaf count n when a label repeats and equal to n
\* for a proper phylogenetic tree.
C4_NlabelsCountsDistinct ==
    (op = "prob" /\ OnTrees) =>
        \A i \in 1..N :
            (~NoChildren(trees[i]) /\ ~ret[i].result.signal) =>
                /\ HasRepeatedLabel(trees[i]) =>
                     ret[i].nlabels < count_leaves(trees[i])
                /\ is_phylo(trees[i]) =>
                     ret[i].nlabels = count_leaves(trees[i])

\* C4 amended: in prob(T) nlabels is the length of T.labels(), which lists the
\* leaf labels with their repetitions: for every PhyloTree nlabels is the leaf
\* count n, whether or not a label repeats, and the result is
\* 2^(n-k-1) / (n! * Gamma_alpha(n)) * Pi(T); for a Shape nlabels is 1.
C4_NlabelsCountsLeaves ==
    op = "prob" =>
        \A i \in 1..N :
            (~NoChildren(objs[i]) /\ ~ret[i].result.signal) =>
                LET n == count_leaves(objs[i])
                    k == count_symmetries(objs[i])
                IN /\ OnTrees =>
                        /\ ret[i].nlabels = n
                        /\ FracEq(ret[i].result.value,
                                  FracMul(FracDiv(Pow2(n - k - 1),
                                                  FracMul(FracInt(factorial(n)),
                                                          Gamma_alpha(n))),
                                          Pi(objs[i])))
                   /\ OnShapes => ret[i].nlabels = 1

\* prob has run on a PhyloTree in which a label occurs twice.
C4_Witness ==
    /\ op = "prob" /\ OnTrees
    /\ \E i \in 1..N :
         /\ HasRepeatedLabel(trees[i])
         /\ ~ret[i].result.signal
         /\ ret[i].nlabels = count_leaves(trees[i])
         /\ ret[i].nlabels >= 2

-----------------------------------------------------------------------------
(* C5 *)

\* The answers of the three functions, whichever of them ran.
ProbRan == op \in {"prob_shape", "prob_tree", "prob"}

Answer(i) == IF op = "prob" THEN ret[i].result ELSE ret[i]

\* C5 as stated: every tree with leaf count n <= 1, where Gamma_alpha(n) is 0,
\* gets the division-by-zero signal from prob_shape, prob_tree and prob, and no
\* tree with n >= 2 gets it.
C5_SignalIffDegenerate ==
    ProbRan =>
        \A i \in 1..N : Answer(i).signal = (count_leaves(objs[i]) <= 1)

\* C5 amended: a tree with n <= 1 that has an internal root (a chain of single
\* children over one leaf) gets the division-by-zero signal from each of
\* prob_shape, prob_tree and prob; a bare leaf, also with n = 1, gets the
\* value 1 from each of them; no tree with n >= 2 gets the signal.
C5_SignalIffDegenerateInternal ==
    ProbRan =>
        \A i \in 1..N :
            /\ Answer(i).signal =
                 (count_leaves(objs[i]) <= 1 /\ input[i].descendants # << >>)
            /\ input[i].descendants = << >> =>
                 (~Answer(i).signal /\ FracEq(Answer(i).value, FracInt(1)))

\* Both kinds of tree with one leaf have been answered: a chain over one leaf
\* with the signal, a bare leaf with 1.
C5_Witness ==
    /\ ProbRan /\ OnTrees
    /\ \E i, j \in 1..N :
         /\ input[i].descendants # << >> /\ count_leaves(objs[i]) = 1
         /\ Answer(i).signal
         /\ input[j].descendants = << >> /\ ~Answer(j).signal

-----------------------------------------------------------------------------
(* C6 *)

Leaf(l) == [name |-> l, descendants |-> << >>]

Inner(d) == [name |-> None, descendants |-> d]

\* ((A,B),(C,D));
NodeABCD == Inner(<<Inner(<<Leaf(1), Leaf(2)>>), Inner(<<Leaf(3), Leaf(4)>>)>>)

\* C6 as stated: for a Shape and for a PhyloTree alike, count_symmetries is
\* the number of internal nodes whose children are pairwise isomorphic as
\* topologies, labels ignored; ((A,B),(C,D)) counts 3.
C6_CountsTopologicalSymmetries ==
    /\ op = "count_symmetries" =>
         \A i \in 1..N : ret[i] = TopoSymmetricNodes(input[i])
    /\ count_symmetries(newick_node_to_shape(NodeABCD)) = 3
    /\ count_symmetries(newick_node_to_tree(NodeABCD)) = 3

\* C6 amended: for a Shape count_symmetries is the number of internal nodes
\* whose children are pairwise isomorphic as topologies, so a perfectly
\* balanced Shape counts all its internal nodes and ((A,B),(C,D)) as a Shape
\* counts 3; for a PhyloTree it is the number of internal nodes whose children
\* are pairwise equal as labelled trees, so ((A,B),(C,D)) as a PhyloTree
\* counts 0.
C6_CountsSymmetriesOfTheClass ==
    /\ (op = "count_symmetries" /\ OnShapes) =>
         \A i \in 1..N :
            /\ ret[i] = TopoSymmetricNodes(input[i])
            /\ ret[i] <= InternalNodes(input[i])
    /\ (op = "count_symmetries" /\ OnTrees) =>
         \A i \in 1..N : ret[i] = LabelSymmetricNodes(input[i])
    /\ count_symmetries(newick_node_to_shape(NodeABCD)) = 3
    /\ count_symmetries(newick_node_to_tree(NodeABCD)) = 0

\* A PhyloTree whose count differs from the count of its topology, one of its
\* internal nodes being symmetric for the labels too.
C6_Witness ==
    /\ op = "count_symmetries" /\ OnTrees
    /\ \E i \in 1..N :
         /\ ret[i] # TopoSymmetricNodes(input[i])
         /\ ret[i] > 0

-----------------------------------------------------------------------------
(* C7 *)

\* (A,B);
NodeAB == Inner(<<Leaf(1), Leaf(2)>>)

OneMinusA == Frac(<<1, -1>>, PolyInt(1))

\* C7 as stated: for (A,B) prob_tree returns 2^(n-1)/(n! Gamma_alpha(n)) Pi(T)
\* with n = 2, Gamma_alpha(2) = 1 - a and Pi(T) = 1, that is 1/(1-a).
C7_ProbTreeOfCherry ==
    (op = "prob_tree" /\ OnTrees) =>
        \A i \in 1..N :
            input[i] = NodeAB =>
                /\ FracEq(Pi(trees[i]), FracInt(1))
                /\ ~ret[i].signal
                /\ FracEq(ret[i].value, FracDiv(FracInt(1), OneMinusA))

\* C7 amended: for (A,B) prob_tree returns 2^(n-1)/(n! Gamma_alpha(n)) Pi(T)
\* with n = 2, Gamma_alpha(2) = 1 - a and Pi(T) = phi(1,1) = 1 - a, that is 1.
C7_ProbTreeOfCherryIsOne ==
    (op = "prob_tree" /\ OnTrees) =>
        \A i \in 1..N :
            input[i] = NodeAB =>
                /\ count_leaves(trees[i]) = 2
                /\ FracEq(Gamma_alpha(2), OneMinusA)
                /\ FracEq(Pi(trees[i]), OneMinusA)
                /\ ~ret[i].signal
                /\ FracEq(ret[i].value,
                          FracMul(FracDiv(Pow2(1),
                                          FracMul(FracInt(2), OneMinusA)),
                                  OneMinusA))
                /\ FracEq(ret[i].value, FracInt(1))

\* prob_tree has answered for (A,B).
C7_Witness ==
    /\ op = "prob_tree" /\ OnTrees
    /\ \E i \in 1..N : input[i] = NodeAB /\ ~ret[i].signal

-----------------------------------------------------------------------------
(* C8 *)

\* C8: construction fails when a Shape or a PhyloTree is given an empty child
\* sequence that is not None, and when a PhyloTree is given neither children
\* nor a label; so every constructed internal node has a child, every
\* constructed PhyloTree leaf has a label, and exactly one of label and
\* children is given to a constructed PhyloTree.
C8_ConstructionInvariant ==
    op = "construct" =>
        /\ (~ret.is_none /\ ret.given = << >>) => ret.raised
        /\ (OnTrees /\ ret.is_none /\ ret.leaf = None) => ret.raised
        /\ ~ret.raised =>
              /\ ret.node.is_leaf = ret.is_none
              /\ ~ret.node.is_leaf => Len(ret.node.children) > 0
              /\ OnTrees =>
                   /\ ret.node.is_leaf => ret.node.leaf # None
                   /\ (ret.node.leaf # None) # (~ret.is_none)

-----------------------------------------------------------------------------
(* C9 *)

\* C9 as stated: compare(A, B) is -1, 0 or +1 for all Shapes and all
\* PhyloTrees, internal nodes with different numbers of children included.
C9_CompareInSigns ==
    op = "compare" => \A i, j \in 1..N : ret[i][j] \in {-1, 0, 1}

\* C9 amended: compare(A, B) is an integer that is negative, zero or positive
\* as A is below, equal to or above B, with compare(B, A) = -compare(A, B);
\* where A and B are internal nodes with different numbers of children it is
\* the difference of the two numbers, which can lie outside {-1, 0, +1}, and
\* it never exceeds in size the largest such difference the two trees allow.
C9_CompareIsSignedDifference ==
    op = "compare" =>
        \A i, j \in 1..N :
            LET A == objs[i]
                B == objs[j]
                widest == IF MaxArity(A) > MaxArity(B) THEN MaxArity(A)
                          ELSE MaxArity(B)
            IN /\ ret[i][j] = -ret[j][i]
               /\ (~A.is_leaf /\ ~B.is_leaf
                     /\ Len(A.children) # Len(B.children)) =>
                        ret[i][j] = Len(A.children) - Len(B.children)
               /\ Abs(ret[i][j]) <= (IF widest <= 2 THEN 1 ELSE widest - 1)
               /\ (A.is_leaf /\ ~B.is_leaf) => ret[i][j] = -1

\* compare has answered with a value outside {-1, 0, +1}.
C9_Witness ==
    /\ op = "compare"
    /\ \E i, j \in 1..N : ret[i][j] < -1 /\ ret[j][i] > 1

-----------------------------------------------------------------------------
(* C10 *)

\* C10: sort() on a canonical Shape, leaf or internal, completes without error
\* and leaves its child sequence as it was.
C10_SortIsNoOp ==
    (op = "sort" /\ OnShapes) =>
        \A i \in 1..N :
            IsCanonical(shapes[i]) =>
                (~ret[i].raised /\ ret[i].children = shapes[i].children)

====
